---- MODULE Spec2Model ----
(***************************************************************************)
(* Bracket tournament engine of germarr/musicdata: the game handlers of    *)
(* src/main.py (start_game, record_match, get_game_results) over the       *)
(* Track, GameSession and GameMatch tables of src/database.py.             *)
(***************************************************************************)
EXTENDS Integers, Sequences, FiniteSets, TLC

VARIABLES tracks, games, matches, inflight, last, irregular,
          user_sessions, artist_cache, clock, collecting

vars == <<tracks, games, matches, inflight, last, irregular,
          user_sessions, artist_cache, clock, collecting>>

\* what the game handlers never write: the Track, UserSession and ArtistCache
\* tables, the clock behind datetime.utcnow() and the position of a running
\* collect_all_artist_tracks call
collected == <<tracks, user_sessions, artist_cache, clock, collecting>>

-----------------------------------------------------------------------------
(* Bounds of the model *)

\* largest number of Track rows of the artist, where callers are unrestricted
MaxPool == 3
\* largest number of GameMatch rows, where callers are unrestricted
MaxMatches == 4
\* largest number of Track rows of the artist, where every match is recorded once
MaxPlayPool == 6
\* largest number of Track rows of the artist, where games are only started
MaxStartPool == 9
\* largest number of Track rows of the artist, where brackets are played to the end
MaxBracketPool == 8
\* largest number of Track rows of the artist, where results are queried
MaxResultsPool == 3
\* latest reading of the clock
MaxClock == 2
\* largest number of UserSession rows
MaxSessions == 3
\* largest trackId the catalog returns
MaxCatalog == 1
\* largest number of tracks the catalog returns for one album
MaxAlbumTracks == 2
\* largest number of collections the catalog returns for one artist
MaxAlbums == 1
\* largest number of Track rows of the artist before any track is collected
MaxCollectPool == 1
\* largest number of collect requests in flight
MaxRequests == 2
\* largest number of Track rows, where tracks are collected
MaxTracks == 2
\* largest number of calls of one behaviour that are not well-formed: calls naming
\* a decided match, a winner that is not a participant, or a game id that is not
\* the match's session
MaxIrregular == 1

-----------------------------------------------------------------------------
(* Values *)

\* GameSession.total_rounds, its default
TotalRounds == 3

\* Python's None in an Optional[str] column
NULL == "NULL"

\* random.sample(all_tracks, min(len(all_tracks), 8))
SampleSize == 8

\* the artist whose tracks are collected, and another artist
ArtistId == "A"
OtherArtistId == "B"

\* uuid4 values handed out to game sessions, in the order they are drawn
GameIds == <<"g1", "g2">>

\* a game id no session carries
NoGameId == "g0"

\* track ids, names and artwork of the artist's Track rows
TrackIds == <<"t1", "t2", "t3", "t4", "t5", "t6", "t7", "t8", "t9", "t10">>
TrackNames == <<"Song 1", "Song 2", "Song 3", "Song 4", "Song 5",
                "Song 6", "Song 7", "Song 8", "Song 9", "Song 10">>
Artworks == <<NULL, "art2", "art3", "art4", "art5",
              "art6", "art7", "art8", "art9", "art10">>

\* a track id of another artist: an id no match of the artist's games pairs
OtherTrackId == "x1"

TrackRow(i) ==
    [artist_id |-> ArtistId, collection_id |-> "c1", track_id |-> TrackIds[i],
     track_name |-> TrackNames[i], artwork_url_600 |-> Artworks[i]]

OtherTrackRow ==
    [artist_id |-> OtherArtistId, collection_id |-> "c9", track_id |-> OtherTrackId,
     track_name |-> "Other song", artwork_url_600 |-> "artx"]

\* the Track table holding n rows of the artist and, when other is TRUE, the row
\* of the other artist (when it is FALSE no Track row carries OtherTrackId)
TrackTable(n, other) ==
    [i \in 1..n |-> TrackRow(i)] \o (IF other THEN <<OtherTrackRow>> ELSE <<>>)

Min(a, b) == IF a <= b THEN a ELSE b

\* the rows of a sequence, as a set
Range(s) == {s[i] : i \in DOMAIN s}

\* Python truthiness of an Optional[str]: None and "" are false
Truthy(x) == x # NULL /\ x # ""

\* x or ""
OrEmpty(x) == IF Truthy(x) THEN x ELSE ""

-----------------------------------------------------------------------------
(* Queries of src/database.py *)

\* select(Track).where(Track.artist_id == artist_id): the rows in table order
\* (the ORDER BY track_number does not change what random.sample can return)
get_all_artist_tracks(artist_id) ==
    SelectSeq(tracks, LAMBDA t : t.artist_id = artist_id)

\* select(GameSession).where(GameSession.game_id == game_id).first()
GameExists(gs, game_id) == \E i \in DOMAIN gs : gs[i].game_id = game_id
GameIndex(gs, game_id) ==
    CHOOSE i \in DOMAIN gs : gs[i].game_id = game_id /\
        \A j \in DOMAIN gs : gs[j].game_id = game_id => i <= j
get_game_session(gs, game_id) == gs[GameIndex(gs, game_id)]

\* select(Track).where(Track.track_id == id).first(): the first such row
TrackExists(id) == \E i \in DOMAIN tracks : tracks[i].track_id = id
FirstTrack(id) ==
    tracks[CHOOSE i \in DOMAIN tracks : tracks[i].track_id = id /\
               \A j \in DOMAIN tracks : tracks[j].track_id = id => i <= j]

\* {t.track_id: t for t in rows}: the last row of an id is the one kept
TrackDictHas(id) == TrackExists(id)
TrackDict(id) ==
    tracks[CHOOSE i \in DOMAIN tracks : tracks[i].track_id = id /\
               \A j \in DOMAIN tracks : tracks[j].track_id = id => j <= i]

\* ORDER BY round_number, match_number (rows that tie: in id order)
RowBefore(a, b) ==
    \/ a.round_number < b.round_number
    \/ a.round_number = b.round_number /\ a.match_number < b.match_number
    \/ a.round_number = b.round_number /\ a.match_number = b.match_number /\ a.id <= b.id

RECURSIVE SortRows(_)
SortRows(S) ==
    IF S = {} THEN <<>>
    ELSE LET m == CHOOSE r \in S : \A q \in S : RowBefore(r, q)
         IN <<m>> \o SortRows(S \ {m})

\* mutant of get_game_matches: the rows of the round of every session
get_game_matches_any_session(ms, game_id, round_number) ==
    SortRows({r \in Range(ms) : r.round_number = round_number})

get_game_matches(ms, game_id, round_number) ==
    SortRows({r \in Range(ms) : r.game_session_id = game_id /\ r.round_number = round_number})

get_all_game_matches(ms, game_id) ==
    SortRows({r \in Range(ms) : r.game_session_id = game_id})

-----------------------------------------------------------------------------
(* Row constructors of src/database.py *)

\* mutant of create_game_session: the winner name starts as the empty string
create_game_session_blank_winner(gs, artist_id) ==
    [game_id |-> GameIds[Len(gs) + 1], artist_id |-> artist_id, status |-> "active",
     winner_track_id |-> NULL, winner_track_name |-> "", winner_artwork_url |-> NULL]

create_game_session(gs, artist_id) ==
    [game_id |-> GameIds[Len(gs) + 1], artist_id |-> artist_id, status |-> "active",
     winner_track_id |-> NULL, winner_track_name |-> NULL, winner_artwork_url |-> NULL]

create_game_match(id, game_id, round_number, match_number, track_1, track_2) ==
    [id |-> id, game_session_id |-> game_id,
     round_number |-> round_number, match_number |-> match_number,
     track_id_1 |-> track_1.track_id, track_name_1 |-> track_1.track_name,
     artwork_url_1 |-> OrEmpty(track_1.artwork_url_600),
     track_id_2 |-> track_2.track_id, track_name_2 |-> track_2.track_name,
     artwork_url_2 |-> OrEmpty(track_2.artwork_url_600),
     winner_track_id |-> NULL, loser_track_id |-> NULL]

-----------------------------------------------------------------------------
(* start_game *)

\* the members of a set of positions in ascending order
Ordered(S) ==
    [i \in 1..Cardinality(S) |-> CHOOSE x \in S : Cardinality({y \in S : y < x}) = i - 1]
Rotate(s, r) == [i \in 1..Len(s) |-> s[((i - 1 + r) % Len(s)) + 1]]
Reverse(s) == [i \in 1..Len(s) |-> s[Len(s) + 1 - i]]

\* the orders in which k of n positions are drawn: of every k-subset, the rotations
\* of its ascending and of its descending order (every order when k <= 3)
SampleOrders(n, k) ==
    UNION {{Rotate(Ordered(S), r) : r \in 0..(k - 1)} \cup
           {Rotate(Reverse(Ordered(S)), r) : r \in 0..(k - 1)} :
              S \in {T \in SUBSET (1..n) : Cardinality(T) = k}}

\* the outcomes of random.sample(pool, k): sequences of k distinct rows of pool
Samples(pool, k) ==
    {[i \in 1..k |-> pool[p[i]]] : p \in SampleOrders(Len(pool), k)}

\* mutant of StartPairs: the leftover track of an odd sample is dropped
StartPairsDropLeftover(s) ==
    [m \in 1..(Len(s) \div 2) |-> <<s[2 * m - 1], s[2 * m]>>]

\* mutant of StartPairs: the leftover track of an odd sample is paired with itself
StartPairsBye(s) ==
    [m \in 1..((Len(s) + 1) \div 2) |->
        <<s[2 * m - 1], IF 2 * m <= Len(s) THEN s[2 * m] ELSE s[2 * m - 1]>>]

\* for i in range(0, len(s), 2): (s[i], s[i + 1] if i + 1 < len(s) else s[0])
StartPairs(s) ==
    [m \in 1..((Len(s) + 1) \div 2) |->
        <<s[2 * m - 1], IF 2 * m <= Len(s) THEN s[2 * m] ELSE s[1]>>]

\* the rows one batch of create_game_match calls appends, numbered len(matches) + 1
Batch(ms, game_id, round_number, pairs) ==
    [i \in 1..Len(pairs) |->
        create_game_match(Len(ms) + i, game_id, round_number, i, pairs[i][1], pairs[i][2])]

NoResp ==
    [status |-> "none", error |-> NULL, game_id |-> NULL, current_round |-> 0,
     matches |-> <<>>, winner_track_id |-> NULL, winner_track_name |-> NULL,
     winner_artwork_url |-> NULL, dismissed_tracks |-> <<>>, available_tracks |-> 0]

NoCall ==
    [op |-> "none", game_id |-> NULL, match_id |-> 0, winner_track_id |-> NULL,
     sample |-> <<>>, resp |-> NoResp]

\* mutant of InsufficientTracks: a pool of one track is let through
InsufficientTracksBelowOne(all_tracks) == Len(all_tracks) < 1

\* if len(all_tracks) < 2
InsufficientTracks(all_tracks) == Len(all_tracks) < 2

\* the whole handler, run to completion
StartGame(artist_id) ==
    /\ Len(games) < Len(GameIds)
    /\ LET all_tracks == get_all_artist_tracks(artist_id) IN
       IF InsufficientTracks(all_tracks)
       THEN /\ last' = [NoCall EXCEPT !.op = "start",
                           !.resp = [NoResp EXCEPT !.status = "error",
                               !.error = "Need at least 2 tracks to start a game",
                               !.available_tracks = Len(all_tracks)]]
            /\ UNCHANGED <<collected, games, matches, inflight>>
       ELSE \E s \in Samples(all_tracks, Min(Len(all_tracks), SampleSize)) :
            LET game == create_game_session(games, artist_id)
                batch == Batch(matches, game.game_id, 1, StartPairs(s))
            IN /\ games' = Append(games, game)
               /\ matches' = matches \o batch
               /\ last' = [NoCall EXCEPT !.op = "start", !.sample = s,
                              !.resp = [NoResp EXCEPT !.status = "started",
                                  !.game_id = game.game_id, !.current_round = 1,
                                  !.matches = [i \in DOMAIN batch |-> batch[i].id]]]
               /\ UNCHANGED <<collected, inflight>>

-----------------------------------------------------------------------------
(* record_match *)

\* mutant of record_match_winner: the loser is track 1 only when track 2 wins
record_match_winner_else_track_2(ms, game_id, match_id, winner_track_id) ==
    IF match_id \in DOMAIN ms
    THEN [ms EXCEPT ![match_id] =
            [ms[match_id] EXCEPT
                !.winner_track_id = winner_track_id,
                !.loser_track_id =
                    IF winner_track_id = ms[match_id].track_id_2
                    THEN ms[match_id].track_id_1
                    ELSE ms[match_id].track_id_2]]
    ELSE ms

\* mutant of record_match_winner: the names of the two tracks are read again
record_match_winner_refresh(ms, game_id, match_id, winner_track_id) ==
    IF match_id \in DOMAIN ms
    THEN [ms EXCEPT ![match_id] =
            [ms[match_id] EXCEPT
                !.track_name_1 = IF TrackDictHas(ms[match_id].track_id_1)
                                 THEN TrackDict(ms[match_id].track_id_1).track_name ELSE @,
                !.track_name_2 = IF TrackDictHas(ms[match_id].track_id_2)
                                 THEN TrackDict(ms[match_id].track_id_2).track_name ELSE @,
                !.winner_track_id = winner_track_id,
                !.loser_track_id =
                    IF winner_track_id = ms[match_id].track_id_1
                    THEN ms[match_id].track_id_2
                    ELSE ms[match_id].track_id_1]]
    ELSE ms

\* record_match_winner: the row is looked up by GameMatch.id alone
record_match_winner(ms, game_id, match_id, winner_track_id) ==
    IF match_id \in DOMAIN ms
    THEN [ms EXCEPT ![match_id] =
            [ms[match_id] EXCEPT
                !.winner_track_id = winner_track_id,
                !.loser_track_id =
                    IF winner_track_id = ms[match_id].track_id_1
                    THEN ms[match_id].track_id_2
                    ELSE ms[match_id].track_id_1]]
    ELSE ms

\* mutant of finish_game_session: the winner's name and artwork are not stored
finish_game_session_id_only(gs, game_id, winner_track_id) ==
    IF GameExists(gs, game_id)
    THEN [gs EXCEPT ![GameIndex(gs, game_id)] =
            [gs[GameIndex(gs, game_id)] EXCEPT
                !.winner_track_id = winner_track_id,
                !.status = "completed"]]
    ELSE gs

\* mutant of finish_game_session: the status is left as it is
finish_game_session_keep_status(gs, game_id, winner_track_id) ==
    IF GameExists(gs, game_id) /\ TrackExists(winner_track_id)
    THEN [gs EXCEPT ![GameIndex(gs, game_id)] =
            [gs[GameIndex(gs, game_id)] EXCEPT
                !.winner_track_id = FirstTrack(winner_track_id).track_id,
                !.winner_track_name = FirstTrack(winner_track_id).track_name,
                !.winner_artwork_url = FirstTrack(winner_track_id).artwork_url_600]]
    ELSE gs

\* finish_game_session: the winner fields are set when a Track row carries the id
finish_game_session(gs, game_id, winner_track_id) ==
    IF GameExists(gs, game_id)
    THEN [gs EXCEPT ![GameIndex(gs, game_id)] =
            IF TrackExists(winner_track_id)
            THEN [gs[GameIndex(gs, game_id)] EXCEPT
                    !.winner_track_id = FirstTrack(winner_track_id).track_id,
                    !.winner_track_name = FirstTrack(winner_track_id).track_name,
                    !.winner_artwork_url = FirstTrack(winner_track_id).artwork_url_600,
                    !.status = "completed"]
            ELSE [gs[GameIndex(gs, game_id)] EXCEPT !.status = "completed"]]
    ELSE gs

\* mutant of AllComplete: a round of one match is never taken for decided
AllCompleteOfSeveral(round_matches) ==
    /\ Len(round_matches) > 1
    /\ \A i \in DOMAIN round_matches : Truthy(round_matches[i].winner_track_id)

\* mutant of AllComplete: only the first match of the round is looked at
AllCompleteFirst(round_matches) ==
    round_matches = <<>> \/ Truthy(round_matches[1].winner_track_id)

\* mutant of AllComplete: one decided match is taken for a decided round
AnyComplete(round_matches) ==
    \E i \in DOMAIN round_matches : Truthy(round_matches[i].winner_track_id)

\* all(m.winner_track_id for m in round_matches)
AllComplete(round_matches) ==
    \A i \in DOMAIN round_matches : Truthy(round_matches[i].winner_track_id)

\* mutant of WinnerTracks: the winners are taken in descending match order
WinnerTracksReversed(round_matches) ==
    LET winners == [i \in DOMAIN round_matches |->
                       round_matches[Len(round_matches) + 1 - i].winner_track_id]
        known == SelectSeq(winners, TrackDictHas)
    IN [i \in DOMAIN known |-> TrackDict(known[i])]

\* [winner_tracks_dict[wid] for wid in winners if wid in winner_tracks_dict]
WinnerTracks(round_matches) ==
    LET winners == [i \in DOMAIN round_matches |-> round_matches[i].winner_track_id]
        known == SelectSeq(winners, TrackDictHas)
    IN [i \in DOMAIN known |-> TrackDict(known[i])]

\* mutant of NextPairs: the leftover winner of an odd round is dropped
NextPairsDropLeftover(w) ==
    [m \in 1..(Len(w) \div 2) |-> <<w[2 * m - 1], w[2 * m]>>]

\* mutant of NextPairs: the two tracks of a pair change sides
NextPairsSwapped(w) ==
    [m \in 1..((Len(w) + 1) \div 2) |->
        <<IF 2 * m <= Len(w) THEN w[2 * m] ELSE w[1], w[2 * m - 1]>>]

\* mutant of NextPairs: every winner is paired with the first one
NextPairsAgainstFirst(w) ==
    [m \in 1..Len(w) |-> <<w[m], w[1]>>]

\* for i in range(0, len(w), 2): (w[i], w[i + 1] if i + 1 < len(w) else w[0])
NextPairs(w) ==
    [m \in 1..((Len(w) + 1) \div 2) |->
        <<w[2 * m - 1], IF 2 * m <= Len(w) THEN w[2 * m] ELSE w[1]>>]

\* record_match after record_match_winner has returned the match (of round
\* round_number): the tables it leaves and the response it returns
RecordDecide(ms, gs, game_id, round_number, winner_track_id) ==
    IF ~GameExists(gs, game_id)
    THEN [matches |-> ms, games |-> gs,
          resp |-> [NoResp EXCEPT !.status = "error", !.error = "Game not found"]]
    ELSE LET round_matches == get_game_matches(ms, game_id, round_number) IN
         IF ~AllComplete(round_matches)
         THEN [matches |-> ms, games |-> gs,
               resp |-> [NoResp EXCEPT !.status = "round_in_progress",
                            !.game_id = game_id, !.current_round = round_number]]
         ELSE IF Len(round_matches) = 1
         THEN [matches |-> ms,
               games |-> finish_game_session(gs, game_id, winner_track_id),
               resp |-> [NoResp EXCEPT !.status = "completed", !.game_id = game_id,
                            !.winner_track_id = winner_track_id]]
         ELSE LET batch == Batch(ms, game_id, round_number + 1,
                                 NextPairs(WinnerTracks(round_matches)))
              IN [matches |-> ms \o batch, games |-> gs,
                  resp |-> [NoResp EXCEPT !.status = "next_round", !.game_id = game_id,
                               !.current_round = round_number + 1,
                               !.matches = [i \in DOMAIN batch |-> batch[i].id]]]

RecordCall(game_id, match_id, winner_track_id) ==
    [NoCall EXCEPT !.op = "record", !.game_id = game_id,
        !.match_id = match_id, !.winner_track_id = winner_track_id]

\* the whole handler, run to completion
RecordMatch(game_id, match_id, winner_track_id) ==
    IF match_id \notin DOMAIN matches
    THEN /\ last' = [RecordCall(game_id, match_id, winner_track_id) EXCEPT !.resp =
                        [NoResp EXCEPT !.status = "error", !.error = "Match not found"]]
         /\ UNCHANGED <<collected, games, matches, inflight>>
    ELSE LET ms1 == record_match_winner(matches, game_id, match_id, winner_track_id)
             out == RecordDecide(ms1, games, game_id, ms1[match_id].round_number,
                                 winner_track_id)
         IN /\ matches' = out.matches
            /\ games' = out.games
            /\ last' = [RecordCall(game_id, match_id, winner_track_id)
                           EXCEPT !.resp = out.resp]
            /\ UNCHANGED <<collected, inflight>>

\* the handler of a request that runs beside other requests, up to the commit of
\* record_match_winner
RecordCommit(game_id, match_id, winner_track_id) ==
    /\ match_id \in DOMAIN matches
    /\ matches' = record_match_winner(matches, game_id, match_id, winner_track_id)
    /\ inflight' = inflight \cup
          {[game_id |-> game_id, match_id |-> match_id,
            winner_track_id |-> winner_track_id,
            round_number |-> matches[match_id].round_number]}
    /\ last' = [RecordCall(game_id, match_id, winner_track_id)
                   EXCEPT !.resp = [NoResp EXCEPT !.status = "pending"]]
    /\ UNCHANGED <<collected, games>>

\* mutant of RecordFinish: the request reads the round as it was before its own
\* winner was committed
RecordFinishReadFirst(req) ==
    LET seen == [i \in DOMAIN matches |->
                    IF i = req.match_id
                    THEN [matches[i] EXCEPT !.winner_track_id = NULL]
                    ELSE matches[i]]
        out == RecordDecide(seen, games, req.game_id, req.round_number,
                            req.winner_track_id)
    IN /\ matches' = matches \o SubSeq(out.matches, Len(matches) + 1, Len(out.matches))
       /\ games' = out.games
       /\ inflight' = inflight \ {req}
       /\ last' = [RecordCall(req.game_id, req.match_id, req.winner_track_id)
                      EXCEPT !.resp = out.resp]
       /\ UNCHANGED collected

\* the rest of the handler of that request, from get_game_session on
RecordFinish(req) ==
    LET out == RecordDecide(matches, games, req.game_id, req.round_number,
                            req.winner_track_id)
    IN /\ matches' = out.matches
       /\ games' = out.games
       /\ inflight' = inflight \ {req}
       /\ last' = [RecordCall(req.game_id, req.match_id, req.winner_track_id)
                      EXCEPT !.resp = out.resp]
       /\ UNCHANGED collected

-----------------------------------------------------------------------------
(* get_game_results *)

\* the sequences that hold every member of a set once
Orderings(S) ==
    {f \in [1..Cardinality(S) -> S] : \A x \in S : \E i \in DOMAIN f : f[i] = x}

\* select(Track).where(Track.track_id.in_(ids)).all(): each Track row carrying
\* one of the ids once; the statement has no ORDER BY, so in any order
TracksIn(ids) ==
    LET rows == {i \in DOMAIN tracks : tracks[i].track_id \in ids}
    IN {[k \in DOMAIN o |-> tracks[o[k]]] : o \in Orderings(rows)}

GameTrack(t) ==
    [track_id |-> t.track_id, track_name |-> t.track_name,
     artwork_url_600 |-> OrEmpty(t.artwork_url_600)]

\* [m.loser_track_id for m in all_matches if m.loser_track_id]
DismissedIds(all_matches) ==
    LET decided == SelectSeq(all_matches, LAMBDA m : Truthy(m.loser_track_id))
    IN [i \in DOMAIN decided |-> decided[i].loser_track_id]

\* mutant of GameNotComplete: the test is inverted
GameNotCompleteInverted(game) == game.status = "completed"

\* if game.status != "completed"
GameNotComplete(game) == game.status # "completed"

GetGameResults(game_id) ==
    LET call == [NoCall EXCEPT !.op = "results", !.game_id = game_id] IN
    /\ UNCHANGED <<collected, games, matches, inflight>>
    /\ IF ~GameExists(games, game_id)
       THEN last' = [call EXCEPT !.resp =
                        [NoResp EXCEPT !.status = "error", !.error = "Game not found"]]
       ELSE IF GameNotComplete(get_game_session(games, game_id))
       THEN last' = [call EXCEPT !.resp =
                        [NoResp EXCEPT !.status = "error", !.error = "Game is not completed"]]
       ELSE LET game == get_game_session(games, game_id)
                all_matches == get_all_game_matches(matches, game_id)
                dismissed_ids == DismissedIds(all_matches)
            IN \E found \in TracksIn(Range(dismissed_ids)) :
                  last' = [call EXCEPT !.resp =
                      [NoResp EXCEPT !.status = game.status, !.game_id = game.game_id,
                          !.winner_track_id = OrEmpty(game.winner_track_id),
                          !.winner_track_name = OrEmpty(game.winner_track_name),
                          !.winner_artwork_url = OrEmpty(game.winner_artwork_url),
                          !.dismissed_tracks = [i \in DOMAIN found |-> GameTrack(found[i])]]]

-----------------------------------------------------------------------------
(* UserSession: get_or_create_session and the session middleware *)

\* uuid4 values handed out to user sessions, in the order they are drawn
SessionIds == <<"s1", "s2", "s3", "s4", "s5", "s6">>

\* a session id no UserSession row carries
NoSessionId == "s0"

\* datetime.utcnow()
utcnow == clock

\* UserSession(session_id=...): created_at and updated_at take their defaults
UserSession(rows, session_id) ==
    [id |-> Len(rows) + 1, session_id |-> session_id,
     created_at |-> utcnow, updated_at |-> utcnow]

\* select(UserSession).where(UserSession.session_id == session_id).first()
SessionExists(rows, session_id) == \E i \in DOMAIN rows : rows[i].session_id = session_id
SessionIndex(rows, session_id) ==
    CHOOSE i \in DOMAIN rows : rows[i].session_id = session_id /\
        \A j \in DOMAIN rows : rows[j].session_id = session_id => i <= j

\* mutant of get_or_create_session: the id the caller sent is kept for the new row
get_or_create_session_keep_id(rows, session_id) ==
    IF Truthy(session_id) /\ SessionExists(rows, session_id)
    THEN [rows EXCEPT ![SessionIndex(rows, session_id)].updated_at = utcnow]
    ELSE Append(rows, UserSession(rows, IF Truthy(session_id) THEN session_id
                                        ELSE SessionIds[1]))

\* get_or_create_session: the table it leaves; the row it returns is the one of
\* the given id when there is one, the last row otherwise
get_or_create_session(rows, session_id) ==
    IF Truthy(session_id) /\ SessionExists(rows, session_id)
    THEN [rows EXCEPT ![SessionIndex(rows, session_id)].updated_at = utcnow]
    ELSE Append(rows, UserSession(rows, SessionIds[Len(rows) + 1]))

\* a call of get_or_create_session, as get_user_session makes it
GetOrCreateSession(session_id) ==
    LET rows == get_or_create_session(user_sessions, session_id)
        found == Truthy(session_id) /\ SessionExists(user_sessions, session_id)
    IN /\ user_sessions' = rows
       /\ last' = [op |-> "session", session_id |-> session_id,
                   resp |-> IF found THEN rows[SessionIndex(user_sessions, session_id)]
                            ELSE rows[Len(rows)]]
       /\ UNCHANGED <<tracks, games, matches, inflight, artist_cache, clock, collecting>>

\* session_middleware: a request without session cookie gets a UserSession row
SessionMiddleware(cookie) ==
    /\ IF ~Truthy(cookie)
       THEN user_sessions' =
               Append(user_sessions, UserSession(user_sessions,
                                                 SessionIds[Len(user_sessions) + 1]))
       ELSE UNCHANGED user_sessions
    /\ last' = [op |-> "middleware", session_id |-> cookie,
                resp |-> IF ~Truthy(cookie) THEN SessionIds[Len(user_sessions) + 1]
                         ELSE cookie]
    /\ UNCHANGED <<tracks, games, matches, inflight, artist_cache, clock, collecting>>

\* time passes
Tick ==
    /\ clock < MaxClock
    /\ clock' = clock + 1
    /\ UNCHANGED <<tracks, games, matches, inflight, last, user_sessions, artist_cache,
                   collecting>>

-----------------------------------------------------------------------------
(* ArtistCache: get_or_create_artist_cache and is_artist_cached *)

\* select(ArtistCache).where(ArtistCache.artist_id == artist_id).first()
CacheExists(rows, artist_id) == \E i \in DOMAIN rows : rows[i].artist_id = artist_id
CacheIndex(rows, artist_id) ==
    CHOOSE i \in DOMAIN rows : rows[i].artist_id = artist_id /\
        \A j \in DOMAIN rows : rows[j].artist_id = artist_id => i <= j

\* ArtistCache(artist_id=..., artist_name=...): the flags take their defaults
ArtistCache(rows, artist_id, artist_name) ==
    [id |-> Len(rows) + 1, artist_id |-> artist_id, artist_name |-> artist_name,
     albums_collected |-> FALSE, tracks_collected |-> FALSE,
     created_at |-> utcnow, updated_at |-> utcnow]

\* mutant of get_or_create_artist_cache: an entry is added whether one exists or not
get_or_create_artist_cache_always_new(rows, artist_id, artist_name) ==
    Append(rows, ArtistCache(rows, artist_id, artist_name))

\* get_or_create_artist_cache: the table it leaves; the entry it returns is the
\* first of the artist
get_or_create_artist_cache(rows, artist_id, artist_name) ==
    IF CacheExists(rows, artist_id)
    THEN [rows EXCEPT ![CacheIndex(rows, artist_id)].updated_at = utcnow]
    ELSE Append(rows, ArtistCache(rows, artist_id, artist_name))

\* is_artist_cached
is_artist_cached(rows, artist_id) ==
    \E i \in DOMAIN rows : rows[i].artist_id = artist_id /\ rows[i].tracks_collected = TRUE

\* "Mark as collected": cache.tracks_collected = True on the artist's entry
MarkCollected(rows, artist_id) ==
    IF CacheExists(rows, artist_id)
    THEN [rows EXCEPT ![CacheIndex(rows, artist_id)].tracks_collected = TRUE,
                      ![CacheIndex(rows, artist_id)].updated_at = utcnow]
    ELSE rows

\* a call of get_or_create_artist_cache
GetOrCreateArtistCache(artist_id, artist_name) ==
    LET rows == get_or_create_artist_cache(artist_cache, artist_id, artist_name) IN
    /\ artist_cache' = rows
    /\ last' = [op |-> "artist_cache", artist_id |-> artist_id,
                resp |-> rows[CacheIndex(rows, artist_id)]]
    /\ UNCHANGED <<tracks, games, matches, inflight, user_sessions, clock, collecting>>

\* a call of is_artist_cached
IsArtistCached(artist_id) ==
    /\ last' = [op |-> "is_cached", artist_id |-> artist_id,
                resp |-> is_artist_cached(artist_cache, artist_id)]
    /\ UNCHANGED <<tracks, games, matches, inflight, user_sessions, artist_cache, clock,
                   collecting>>

-----------------------------------------------------------------------------
(* The catalog and the two collect handlers *)

\* the name the catalog gives a track that was renamed since it was stored
RenamedTrack == "Remaster"

\* artistName of the catalog's results
ArtistName(artist_id) == IF artist_id = ArtistId THEN "Artist A" ELSE "Artist B"

\* collectionId of the i-th collection of a catalog answer, as str() renders it
CollectionIds == <<"c1", "c2", "c3", "c4">>

\* one track of a catalog answer; trackId 0 stands for a result without trackId
CatalogTrack(i, renamed) ==
    [trackId |-> i,
     trackName |-> IF renamed \/ i = 0 THEN RenamedTrack ELSE TrackNames[i]]

\* str(result.get("trackId", ""))
TrackIdOf(track_data) == IF track_data.trackId = 0 THEN "" ELSE TrackIds[track_data.trackId]

\* Track(artist_id=..., collection_id=..., **extract_track_fields(track_data)):
\* the extracted fields carry no artwork
Track(artist_id, collection_id, track_data) ==
    [artist_id |-> artist_id, collection_id |-> collection_id,
     track_id |-> TrackIdOf(track_data), track_name |-> track_data.trackName,
     artwork_url_600 |-> NULL]

\* get_artist_tracks
get_artist_tracks(artist_id, collection_id) ==
    SelectSeq(tracks, LAMBDA t : t.artist_id = artist_id /\ t.collection_id = collection_id)

\* mutant of TrackStored: only the rows committed before the album are looked at
TrackStoredCommitted(rows, track_id) ==
    \E i \in DOMAIN tracks : tracks[i].track_id = track_id

\* select(Track).where(Track.track_id == track_id).first(), on the rows the
\* session sees: the committed ones and, flushed by the query, the added ones
TrackStored(rows, track_id) == \E i \in DOMAIN rows : rows[i].track_id = track_id

\* the loop of collect_all_artist_tracks over one album's tracks: acc holds the
\* session's rows and the two counters
RECURSIVE StoreNewTracks(_, _, _, _)
StoreNewTracks(acc, artist_id, collection_id, tracks_data) ==
    IF tracks_data = <<>> THEN acc
    ELSE LET track_data == Head(tracks_data) IN
         StoreNewTracks(
            IF TrackStored(acc.rows, TrackIdOf(track_data))
            THEN [acc EXCEPT !.skipped_tracks = @ + 1]
            ELSE [acc EXCEPT !.rows = Append(@, Track(artist_id, collection_id, track_data)),
                             !.new_tracks = @ + 1],
            artist_id, collection_id, Tail(tracks_data))

\* the loop of collect_album_tracks: every track of the answer is stored
RECURSIVE StoreTracks(_, _, _, _)
StoreTracks(rows, artist_id, collection_id, tracks_data) ==
    IF tracks_data = <<>> THEN rows
    ELSE StoreTracks(Append(rows, Track(artist_id, collection_id, Head(tracks_data))),
                     artist_id, collection_id, Tail(tracks_data))

\* no collect_all_artist_tracks call is running
NotCollecting ==
    [artist_id |-> NULL, album_collections |-> <<>>, idx |-> 0,
     collected_albums |-> <<>>, total_tracks_new |-> 0]

\* collect_album_tracks; answer.ok is FALSE when get_album_tracks raises
CollectAlbumTracks(artist_id, collection_id, answer) ==
    LET tracks_data == answer.tracks
        cached == IF is_artist_cached(artist_cache, artist_id)
                  THEN get_artist_tracks(artist_id, collection_id) ELSE <<>>
        fetched == cached = <<>> /\ answer.ok /\ tracks_data # <<>>
        stored == StoreTracks(<<>>, artist_id, collection_id, tracks_data)
    IN /\ collecting = NotCollecting
       /\ IF fetched
          THEN /\ tracks' = tracks \o stored
               /\ artist_cache' =
                     MarkCollected(get_or_create_artist_cache(artist_cache, artist_id,
                                                              ArtistName(artist_id)),
                                   artist_id)
          ELSE UNCHANGED <<tracks, artist_cache>>
       /\ last' = [op |-> "collect_album", artist_id |-> artist_id,
                   collection_id |-> collection_id, answer |-> answer,
                   resp |-> IF cached # <<>> THEN cached
                            ELSE IF fetched THEN stored ELSE <<>>]
       /\ UNCHANGED <<games, matches, inflight, user_sessions, clock, collecting>>

\* collect_album_tracks of a request that runs beside other requests, up to the
\* await of get_album_tracks: the cache check
CollectAlbumCheck(artist_id, collection_id, n) ==
    LET cached == IF is_artist_cached(artist_cache, artist_id)
                  THEN get_artist_tracks(artist_id, collection_id) ELSE <<>>
    IN /\ \A r \in inflight : r.request # n
       /\ IF cached # <<>>
          THEN UNCHANGED inflight
          ELSE inflight' = inflight \cup {[request |-> n, artist_id |-> artist_id,
                                          collection_id |-> collection_id]}
       /\ last' = [op |-> "collect_album_check", artist_id |-> artist_id,
                   collection_id |-> collection_id,
                   answer |-> [ok |-> TRUE, tracks |-> <<>>], resp |-> cached]
       /\ UNCHANGED <<tracks, games, matches, user_sessions, artist_cache, clock, collecting>>

\* the rest of the handler of that request, from the answer of get_album_tracks on
CollectAlbumStore(req, answer) ==
    LET tracks_data == answer.tracks
        fetched == answer.ok /\ tracks_data # <<>>
        stored == StoreTracks(<<>>, req.artist_id, req.collection_id, tracks_data)
    IN /\ IF fetched
          THEN /\ tracks' = tracks \o stored
               /\ artist_cache' =
                     MarkCollected(get_or_create_artist_cache(artist_cache, req.artist_id,
                                                              ArtistName(req.artist_id)),
                                   req.artist_id)
          ELSE UNCHANGED <<tracks, artist_cache>>
       /\ inflight' = inflight \ {req}
       /\ last' = [op |-> "collect_album", artist_id |-> req.artist_id,
                   collection_id |-> req.collection_id, answer |-> answer,
                   resp |-> IF fetched THEN stored ELSE <<>>]
       /\ UNCHANGED <<games, matches, user_sessions, clock, collecting>>

\* collect_all_artist_tracks up to its first album: answer.ok is FALSE when
\* search_albums_by_artist raises, answer.albums says of each collection whether
\* it is an album
CollectAllBegin(artist_id, answer) ==
    LET albums == answer.albums
        album_collections ==
            SelectSeq([i \in DOMAIN albums |-> [collectionId |-> CollectionIds[i],
                                                 album |-> albums[i]]],
                      LAMBDA a : a.album)
        returns == ~answer.ok \/ albums = <<>>
    IN /\ collecting = NotCollecting
       /\ IF returns
          THEN UNCHANGED <<artist_cache, collecting>>
          ELSE /\ artist_cache' = get_or_create_artist_cache(artist_cache, artist_id,
                                                             ArtistName(artist_id))
               /\ collecting' = [artist_id |-> artist_id,
                                 album_collections |->
                                    [i \in DOMAIN album_collections |->
                                        album_collections[i].collectionId],
                                 idx |-> 1, collected_albums |-> <<>>,
                                 total_tracks_new |-> 0]
       /\ last' = [op |-> "collect_all_begin", artist_id |-> artist_id, answer |-> answer,
                   resp |-> [total_albums |-> 0, total_tracks_collected |-> 0,
                             albums |-> <<>>, returned |-> returns]]
       /\ UNCHANGED <<tracks, games, matches, inflight, user_sessions, clock>>

\* collect_all_artist_tracks, one pass of its loop over the albums: answer.ok is
\* FALSE when get_album_tracks raises
CollectAllAlbum(answer) ==
    LET collection_id == collecting.album_collections[collecting.idx]
        tracks_data == answer.tracks
        acc == StoreNewTracks([rows |-> tracks, new_tracks |-> 0, skipped_tracks |-> 0],
                              collecting.artist_id, collection_id, tracks_data)
        report == [collection_id |-> collection_id,
                   new_tracks |-> acc.new_tracks, skipped_tracks |-> acc.skipped_tracks]
    IN /\ collecting # NotCollecting
       /\ collecting.idx <= Len(collecting.album_collections)
       /\ IF answer.ok
          THEN /\ tracks' = acc.rows
               /\ collecting' = [collecting EXCEPT
                                    !.idx = @ + 1,
                                    !.collected_albums = Append(@, report),
                                    !.total_tracks_new = @ + acc.new_tracks]
          ELSE /\ collecting' = [collecting EXCEPT !.idx = @ + 1]
               /\ UNCHANGED tracks
       /\ last' = [op |-> "collect_all_album", artist_id |-> collecting.artist_id,
                   answer |-> answer,
                   resp |-> [total_albums |-> 0, total_tracks_collected |-> 0,
                             albums |-> IF answer.ok THEN <<report>> ELSE <<>>,
                             returned |-> FALSE]]
       /\ UNCHANGED <<games, matches, inflight, user_sessions, artist_cache, clock>>

\* collect_all_artist_tracks after its last album: "Mark artist as fully
\* collected" and the summary
CollectAllEnd ==
    /\ collecting # NotCollecting
    /\ collecting.idx > Len(collecting.album_collections)
    /\ artist_cache' = MarkCollected(artist_cache, collecting.artist_id)
    /\ collecting' = NotCollecting
    /\ last' = [op |-> "collect_all", artist_id |-> collecting.artist_id,
                answer |-> [ok |-> TRUE, tracks |-> <<>>],
                resp |-> [total_albums |-> Len(collecting.album_collections),
                          total_tracks_collected |-> collecting.total_tracks_new,
                          albums |-> collecting.collected_albums, returned |-> TRUE]]
    /\ UNCHANGED <<tracks, games, matches, inflight, user_sessions, clock>>

-----------------------------------------------------------------------------
(* The callers *)

\* the game ids, match ids and winner ids a caller sends
\* (a winner id is any str: a participant, another track's id, the empty string)
GameIdInputs == {games[i].game_id : i \in DOMAIN games} \cup {NoGameId}
MatchIdInputs == 1..(Len(matches) + 1)
WinnerInputs(match_id) ==
    IF match_id \in DOMAIN matches
    THEN {matches[match_id].track_id_1, matches[match_id].track_id_2, OtherTrackId, ""}
    ELSE {OtherTrackId}

\* a call that names an undecided match under its own session
FirstRecord(game_id, match_id) ==
    /\ match_id \in DOMAIN matches
    /\ matches[match_id].game_session_id = game_id
    /\ matches[match_id].winner_track_id = NULL

\* a well-formed call: a first record, won by one of the match's two tracks
WellFormed(game_id, match_id, winner_track_id) ==
    /\ FirstRecord(game_id, match_id)
    /\ winner_track_id \in {matches[match_id].track_id_1, matches[match_id].track_id_2}

\* the caller's budget of calls that are not well-formed
Caller(game_id, match_id, winner_track_id) ==
    IF WellFormed(game_id, match_id, winner_track_id)
    THEN irregular' = irregular
    ELSE irregular < MaxIrregular /\ irregular' = irregular + 1

InitTables(max_pool) ==
    /\ \E n \in 0..max_pool, other \in BOOLEAN : tracks = TrackTable(n, other)
    /\ games = <<>>
    /\ matches = <<>>
    /\ inflight = {}
    /\ last = NoCall
    /\ irregular = 0
    /\ user_sessions = <<>>
    /\ artist_cache = <<>>
    /\ clock = 0
    /\ collecting = NotCollecting

StartOne == games = <<>> /\ StartGame(ArtistId) /\ UNCHANGED irregular

-----------------------------------------------------------------------------
(* One session, callers unrestricted within their budget *)

Init == InitTables(MaxPool)

Next ==
    \/ StartOne /\ Len(matches') <= MaxMatches
    \/ \E game_id \in GameIdInputs, match_id \in MatchIdInputs :
          \E winner_track_id \in WinnerInputs(match_id) :
             /\ Caller(game_id, match_id, winner_track_id)
             /\ RecordMatch(game_id, match_id, winner_track_id)
             /\ Len(matches') <= MaxMatches

Spec == Init /\ [][Next]_vars

-----------------------------------------------------------------------------
(* One session, every call well-formed *)

InitPlay == InitTables(MaxPlayPool)

NextPlay ==
    \/ StartOne
    \/ \E game_id \in GameIdInputs, match_id \in MatchIdInputs :
          \E winner_track_id \in WinnerInputs(match_id) :
             /\ WellFormed(game_id, match_id, winner_track_id)
             /\ RecordMatch(game_id, match_id, winner_track_id)
             /\ UNCHANGED irregular

SpecPlay == InitPlay /\ [][NextPlay]_vars

-----------------------------------------------------------------------------
(* One session, every call well-formed, and the caller goes on recording *)
(* while a match is undecided                                            *)

PlayRecord ==
    \E game_id \in GameIdInputs, match_id \in MatchIdInputs :
       \E winner_track_id \in WinnerInputs(match_id) :
          /\ WellFormed(game_id, match_id, winner_track_id)
          /\ RecordMatch(game_id, match_id, winner_track_id)
          /\ UNCHANGED irregular

NextLive == StartOne \/ PlayRecord

\* a match of a session is undecided: PlayRecord is enabled
CanRecord ==
    \E i \in DOMAIN matches :
        /\ GameExists(games, matches[i].game_session_id)
        /\ matches[i].winner_track_id = NULL

\* weak fairness of PlayRecord, its enabling condition written out: a caller who
\* has an undecided match before them records one
FairRecord == []<>(~CanRecord) \/ []<><<PlayRecord>>_vars

SpecLive == InitPlay /\ [][NextLive]_vars /\ FairRecord

-----------------------------------------------------------------------------
(* One session, every match recorded once, with any winner id *)

NextOnce ==
    \/ StartOne
    \/ \E game_id \in GameIdInputs, match_id \in MatchIdInputs :
          \E winner_track_id \in WinnerInputs(match_id) :
             /\ FirstRecord(game_id, match_id)
             /\ RecordMatch(game_id, match_id, winner_track_id)
             /\ UNCHANGED irregular

SpecOnce == InitPlay /\ [][NextOnce]_vars

-----------------------------------------------------------------------------
(* Games are only started *)

InitStart == InitTables(MaxStartPool)

NextStart == StartOne

SpecStart == InitStart /\ [][NextStart]_vars

-----------------------------------------------------------------------------
(* Two sessions side by side; every call names an existing session *)

NextTwo ==
    \/ StartGame(ArtistId) /\ UNCHANGED irregular /\ Len(matches') <= MaxMatches
    \/ \E game_id \in GameIdInputs \ {NoGameId}, match_id \in MatchIdInputs :
          \E winner_track_id \in WinnerInputs(match_id) :
             /\ Caller(game_id, match_id, winner_track_id)
             /\ RecordMatch(game_id, match_id, winner_track_id)
             /\ Len(matches') <= MaxMatches

SpecTwo == Init /\ [][NextTwo]_vars

-----------------------------------------------------------------------------
(* Two sessions side by side, every call well-formed *)

NextPair ==
    \/ StartGame(ArtistId) /\ UNCHANGED irregular
    \/ PlayRecord

SpecPair == Init /\ [][NextPair]_vars

-----------------------------------------------------------------------------
(* One session, well-formed requests served side by side: a request's commit *)
(* of the winner and the rest of its handler are separate steps            *)

NextConc ==
    \/ StartOne /\ inflight = {} /\ Len(matches') <= MaxMatches
    \/ \E game_id \in GameIdInputs, match_id \in MatchIdInputs :
          \E winner_track_id \in WinnerInputs(match_id) :
             /\ WellFormed(game_id, match_id, winner_track_id)
             /\ RecordCommit(game_id, match_id, winner_track_id)
             /\ UNCHANGED irregular
    \/ \E req \in inflight :
          /\ RecordFinish(req)
          /\ UNCHANGED irregular
          /\ Len(matches') <= MaxMatches

SpecConc == Init /\ [][NextConc]_vars

-----------------------------------------------------------------------------
(* One session, every match recorded once with any winner id, results queried *)

InitResults == InitTables(MaxResultsPool)

NextResults ==
    \/ NextOnce
    \/ \E game_id \in GameIdInputs : GetGameResults(game_id) /\ UNCHANGED irregular

SpecResults == InitResults /\ [][NextResults]_vars

-----------------------------------------------------------------------------
(* One session over a pool that fills the sample, every call well-formed *)

InitFull ==
    /\ \E other \in BOOLEAN : tracks = TrackTable(SampleSize, other)
    /\ games = <<>>
    /\ matches = <<>>
    /\ inflight = {}
    /\ last = NoCall
    /\ irregular = 0
    /\ user_sessions = <<>>
    /\ artist_cache = <<>>
    /\ clock = 0
    /\ collecting = NotCollecting

SpecFull == InitFull /\ [][NextPlay]_vars

-----------------------------------------------------------------------------
(* One session over a pool of any size up to the sample, every call well-formed *)

InitBracket == InitTables(MaxBracketPool)

SpecBracket == InitBracket /\ [][NextPlay]_vars

-----------------------------------------------------------------------------
(* User sessions: requests with and without a session cookie *)

\* the session ids a client sends: one of a stored row, one of no row, "", none
SessionIdInputs ==
    {user_sessions[i].session_id : i \in DOMAIN user_sessions} \cup {NoSessionId, "", NULL}

NextSessions ==
    \/ \E session_id \in SessionIdInputs :
          /\ GetOrCreateSession(session_id)
          /\ Len(user_sessions') <= MaxSessions
          /\ UNCHANGED irregular
    \/ \E cookie \in SessionIdInputs :
          /\ SessionMiddleware(cookie)
          /\ Len(user_sessions') <= MaxSessions
          /\ UNCHANGED irregular
    \/ Tick /\ UNCHANGED irregular

SpecSessions == Init /\ [][NextSessions]_vars

-----------------------------------------------------------------------------
(* The catalog's answers *)

\* the sequences over S of length at most n
SeqsUpTo(S, n) == UNION {[1..k -> S] : k \in 0..n}

\* what get_album_tracks gives: it raises, or returns the tracks of the album,
\* possibly none, possibly one twice, under the names in renames
AlbumAnswers(renames) ==
    {[ok |-> FALSE, tracks |-> <<>>]} \cup
    {[ok |-> TRUE, tracks |-> t] :
        t \in SeqsUpTo({CatalogTrack(i, r) : i \in 0..MaxCatalog, r \in renames},
                       MaxAlbumTracks)}

\* what search_albums_by_artist gives: it raises, or returns collections, each an
\* album or not
ArtistAnswers ==
    {[ok |-> FALSE, albums |-> <<>>]} \cup
    {[ok |-> TRUE, albums |-> a] : a \in SeqsUpTo(BOOLEAN, MaxAlbums)}

ArtistIdInputs == {ArtistId, OtherArtistId}

-----------------------------------------------------------------------------
(* collect_all_artist_tracks called again and again, one call at a time *)

NextCollectAll ==
    \/ \E answer \in ArtistAnswers : CollectAllBegin(ArtistId, answer) /\ UNCHANGED irregular
    \/ \E answer \in AlbumAnswers({FALSE}) : CollectAllAlbum(answer) /\ UNCHANGED irregular
    \/ CollectAllEnd /\ UNCHANGED irregular

InitCollect == InitTables(MaxCollectPool)

SpecCollectAll == InitCollect /\ [][NextCollectAll]_vars

-----------------------------------------------------------------------------
(* The artist cache: both collect handlers and the two cache helpers, one call
   at a time *)

\* the artist_name a caller passes
ArtistNameInputs(artist_id) == {ArtistName(artist_id), "Another name"}

\* the answers of get_album_tracks with at most one track
SingleAnswers(renames) == {answer \in AlbumAnswers(renames) : Len(answer.tracks) <= 1}

NextCache ==
    \/ \E artist_id \in ArtistIdInputs : \E artist_name \in ArtistNameInputs(artist_id) :
          /\ collecting = NotCollecting
          /\ GetOrCreateArtistCache(artist_id, artist_name)
          /\ UNCHANGED irregular
    \/ \E artist_id \in ArtistIdInputs :
          /\ collecting = NotCollecting
          /\ IsArtistCached(artist_id)
          /\ UNCHANGED irregular
    \/ \E artist_id \in ArtistIdInputs, answer \in SingleAnswers({FALSE}) :
          /\ CollectAlbumTracks(artist_id, CollectionIds[1], answer)
          /\ Len(tracks') <= MaxTracks
          /\ UNCHANGED irregular
    \/ \E answer \in ArtistAnswers : CollectAllBegin(ArtistId, answer) /\ UNCHANGED irregular
    \/ \E answer \in SingleAnswers({FALSE}) :
          /\ CollectAllAlbum(answer)
          /\ Len(tracks') <= MaxTracks
          /\ UNCHANGED irregular
    \/ CollectAllEnd /\ UNCHANGED irregular

SpecCache == InitCollect /\ [][NextCache]_vars

-----------------------------------------------------------------------------
(* One session, every call well-formed, while albums of the artist are collected *)

NextSnapshot ==
    \/ StartOne
    \/ PlayRecord
    \/ \E answer \in SingleAnswers({TRUE}) :
          /\ CollectAlbumTracks(ArtistId, CollectionIds[1], answer)
          /\ Len(tracks') <= MaxPool + MaxTracks
          /\ UNCHANGED irregular

SpecSnapshot == Init /\ [][NextSnapshot]_vars

-----------------------------------------------------------------------------
(* Collect requests for one artist served side by side, over a Track table that
   holds no track of the artist: a collect_album_tracks request is split at its
   await of the catalog, a collect_all_artist_tracks call at its albums; every
   answer of the catalog names at most one track *)

InitEmpty == InitTables(0)

NextCollectConc ==
    \/ \E n \in 1..MaxRequests :
          CollectAlbumCheck(ArtistId, CollectionIds[1], n) /\ UNCHANGED irregular
    \/ \E req \in inflight, answer \in SingleAnswers({FALSE}) :
          /\ CollectAlbumStore(req, answer)
          /\ Len(tracks') <= MaxTracks
          /\ UNCHANGED irregular
    \/ \E answer \in ArtistAnswers :
          /\ CollectAllBegin(ArtistId, answer)
          /\ UNCHANGED irregular
    \/ \E answer \in SingleAnswers({FALSE}) :
          /\ CollectAllAlbum(answer)
          /\ Len(tracks') <= MaxTracks
          /\ UNCHANGED irregular
    \/ CollectAllEnd /\ UNCHANGED irregular

SpecCollectConc == InitEmpty /\ [][NextCollectConc]_vars

-----------------------------------------------------------------------------
(* Claims *)

\* C1: every GameMatch whose outcome is set has its winner_track_id and its
\* loser_track_id each equal to one of its two track ids, and the two differ.
C1_WinnerLoserAreTheTwoTracks ==
    \A i \in DOMAIN matches :
        matches[i].winner_track_id # NULL =>
            /\ matches[i].winner_track_id \in {matches[i].track_id_1, matches[i].track_id_2}
            /\ matches[i].loser_track_id \in {matches[i].track_id_1, matches[i].track_id_2}
            /\ matches[i].winner_track_id # matches[i].loser_track_id

\* C2: a session's status never goes from completed back to active, and no call
\* applies the completing transition to a session that is already completed.
C2_CompletedOnce ==
    [][\A i \in DOMAIN games :
          games[i].status = "completed" =>
              /\ games'[i].status = "completed"
              /\ ~(/\ last'.op = "record"
                   /\ last'.resp.status = "completed"
                   /\ last'.resp.game_id = games[i].game_id)]_vars

\* C3: the batch of round N+1 matches of a session is created at most once: a
\* step that adds round N+1 matches to a session finds none there, under every
\* interleaving of the requests recording the matches of round N.
C3_RoundAdvancesOnce ==
    [][\A i \in DOMAIN matches' :
          (i \notin DOMAIN matches /\ matches'[i].round_number > 1) =>
              ~\E j \in DOMAIN matches :
                  /\ matches[j].game_session_id = matches'[i].game_session_id
                  /\ matches[j].round_number = matches'[i].round_number]_vars

\* the rows of the round of match match_id, in the order of get_game_matches
RoundOf(game_id, match_id) ==
    get_game_matches(matches, game_id, matches[match_id].round_number)

\* the call names the last undecided match of a round of more than one match
LastUndecided(game_id, match_id) ==
    /\ FirstRecord(game_id, match_id)
    /\ Len(RoundOf(game_id, match_id)) > 1
    /\ \A i \in DOMAIN RoundOf(game_id, match_id) :
          RoundOf(game_id, match_id)[i].id # match_id =>
              RoundOf(game_id, match_id)[i].winner_track_id # NULL

\* the winners of that round in match order, once winner_track_id is recorded
WinnersWith(game_id, match_id, winner_track_id) ==
    [i \in DOMAIN RoundOf(game_id, match_id) |->
        IF RoundOf(game_id, match_id)[i].id = match_id
        THEN winner_track_id
        ELSE RoundOf(game_id, match_id)[i].winner_track_id]

\* the step appends ceil(N/2) rows of the next round, numbered 1..ceil(N/2), that
\* pair the winners W two by two, the leftover one with W[1], and returns them
AdvancesBy(game_id, match_id, W) ==
    LET N == Len(W)
        M == (N + 1) \div 2
        r == matches[match_id].round_number
    IN /\ Len(matches') = Len(matches) + M
       /\ \A k \in 1..M :
             LET row == matches'[Len(matches) + k] IN
             /\ row.game_session_id = game_id
             /\ row.round_number = r + 1
             /\ row.match_number = k
             /\ row.track_id_1 = W[2 * k - 1]
             /\ row.track_id_2 = IF 2 * k <= N THEN W[2 * k] ELSE W[1]
       /\ last'.resp.status = "next_round"
       /\ last'.resp.current_round = r + 1
       /\ last'.resp.matches = [k \in 1..M |-> Len(matches) + k]

\* C4 (as claimed): recording the last undecided match of a round of N > 1
\* matches creates exactly ceil(N/2) matches of round N+1, numbered
\* 1..ceil(N/2), paired by the rule of start, and returns NextRound with them.
C4_NextRoundAsClaimed ==
    [][(last'.op = "record" /\ LastUndecided(last'.game_id, last'.match_id)) =>
          AdvancesBy(last'.game_id, last'.match_id,
              WinnersWith(last'.game_id, last'.match_id, last'.winner_track_id))]_vars

\* C4 (amended): the same, when every winner recorded in the round is the
\* track id of a stored Track row.
C4_NextRound ==
    [][(/\ last'.op = "record"
        /\ LastUndecided(last'.game_id, last'.match_id)
        /\ \A i \in DOMAIN RoundOf(last'.game_id, last'.match_id) :
              TrackExists(WinnersWith(last'.game_id, last'.match_id,
                                      last'.winner_track_id)[i])) =>
          AdvancesBy(last'.game_id, last'.match_id,
              WinnersWith(last'.game_id, last'.match_id, last'.winner_track_id))]_vars

\* a round of three matches has just been decided and two matches were returned
C4_Witness ==
    /\ last.op = "record"
    /\ last.resp.status = "next_round"
    /\ Len(last.resp.matches) = 2
    /\ Len(RoundOf(last.game_id, last.match_id)) = 3

\* the track ids of a sequence of Track rows
IdsOf(s) == {s[i].track_id : i \in DOMAIN s}

\* the last call was a start_game that found the artist's pool
StartedFrom(pool) ==
    /\ last.op = "start"
    /\ pool = get_all_artist_tracks(ArtistId)
    /\ Len(pool) >= 2

SlotsOf(track_id) ==
    {<<i, 1>> : i \in {j \in DOMAIN matches : matches[j].track_id_1 = track_id}} \cup
    {<<i, 2>> : i \in {j \in DOMAIN matches : matches[j].track_id_2 = track_id}}

C7_InsufficientTracks ==
    [][(last'.op = "start" /\ Len(get_all_artist_tracks(ArtistId)) < 2) =>
          /\ last'.resp.status = "error"
          /\ last'.resp.error = "Need at least 2 tracks to start a game"
          /\ last'.resp.available_tracks = Len(get_all_artist_tracks(ArtistId))
          /\ games' = games
          /\ matches' = matches]_vars

\* start was refused for a pool of one track
C7_Witness ==
    /\ last.op = "start"
    /\ last.resp.status = "error"
    /\ last.resp.available_tracks = 1
    /\ Len(get_all_artist_tracks(ArtistId)) = 1
    /\ games = <<>>

\* the last call recorded a winner in a match that exists
Recorded == last.op = "record" /\ last.match_id \in DOMAIN matches

\* C8 (as claimed): recordOutcome sets the winner to the given id; the loser is
\* track 2 when track 1 wins, track 1 when track 2 wins, and track 2 for an id
\* that is neither.
C8_LoserAsClaimed ==
    Recorded =>
        LET m == matches[last.match_id] IN
        /\ m.winner_track_id = last.winner_track_id
        /\ last.winner_track_id = m.track_id_1 => m.loser_track_id = m.track_id_2
        /\ last.winner_track_id = m.track_id_2 => m.loser_track_id = m.track_id_1
        /\ last.winner_track_id \notin {m.track_id_1, m.track_id_2} =>
              m.loser_track_id = m.track_id_2

\* C8 (amended): the same, but for an id that is neither the loser is track 1.
C8_Loser ==
    Recorded =>
        LET m == matches[last.match_id] IN
        /\ m.winner_track_id = last.winner_track_id
        /\ last.winner_track_id = m.track_id_1 => m.loser_track_id = m.track_id_2
        /\ last.winner_track_id # m.track_id_1 => m.loser_track_id = m.track_id_1

\* a winner that is neither of the match's tracks was recorded
C8_Witness ==
    /\ Recorded
    /\ last.winner_track_id \notin
          {matches[last.match_id].track_id_1, matches[last.match_id].track_id_2}
    /\ matches[last.match_id].track_id_1 # matches[last.match_id].track_id_2

\* C9: recordOutcome proceeds only if the match exists and belongs to the named
\* session; otherwise it fails with MatchNotFound (and records nothing).
C9_MatchUnderGame ==
    [][(/\ last'.op = "record"
        /\ ~(/\ last'.match_id \in DOMAIN matches
             /\ matches[last'.match_id].game_session_id = last'.game_id)) =>
          /\ last'.resp.error = "Match not found"
          /\ matches' = matches
          /\ games' = games]_vars

\* C10: after a winner is recorded, if a match of that round still lacks a
\* winner the call returns RoundInProgress with that round number, creates no
\* GameMatch and leaves the GameSession unchanged.
C10_RoundInProgress ==
    [][(/\ last'.op = "record"
        /\ last'.match_id \in DOMAIN matches
        /\ matches[last'.match_id].game_session_id = last'.game_id) =>
          LET r == matches[last'.match_id].round_number
              after == get_game_matches(matches', last'.game_id, r)
          IN /\ (\E i \in DOMAIN after : ~Truthy(after[i].winner_track_id)) =>
                    last'.resp.status = "round_in_progress"
             /\ last'.resp.status = "round_in_progress" =>
                    /\ last'.resp.current_round = r
                    /\ games' = games
                    /\ DOMAIN matches' = DOMAIN matches
                    /\ \A i \in DOMAIN matches :
                          i # last'.match_id => matches'[i] = matches[i]]_vars

\* a call returned RoundInProgress while a match of the round was undecided
C10_Witness ==
    /\ Recorded
    /\ last.resp.status = "round_in_progress"
    /\ matches[last.match_id].game_session_id = last.game_id
    /\ \E i \in DOMAIN matches :
          /\ matches[i].round_number = matches[last.match_id].round_number
          /\ matches[i].winner_track_id = NULL

\* the call names a match under its own session that is the only match of its round
OnlyMatchOfRound(game_id, match_id) ==
    /\ match_id \in DOMAIN matches
    /\ matches[match_id].game_session_id = game_id
    /\ Len(RoundOf(game_id, match_id)) = 1

\* the session is completed and the call returned Completed with the given id
CompletedWith(game_id, winner_track_id) ==
    /\ get_game_session(games', game_id).status = "completed"
    /\ last'.resp.status = "completed"
    /\ last'.resp.game_id = game_id
    /\ last'.resp.winner_track_id = winner_track_id

C12_MutatedOnce ==
    [][\A i \in DOMAIN matches :
          matches[i].winner_track_id # NULL =>
              /\ matches'[i].winner_track_id = matches[i].winner_track_id
              /\ matches'[i].loser_track_id = matches[i].loser_track_id]_vars

\* C13: no two GameMatch rows of one session carry the same (round number,
\* match number) pair, and the match numbers of every round of a session are
\* exactly 1..M, M the number of rows of that round.
C13_MatchNumbersUnique ==
    \A i \in DOMAIN matches :
        LET round == get_game_matches(matches, matches[i].game_session_id,
                                      matches[i].round_number)
        IN /\ \A j \in DOMAIN matches :
                 (/\ j # i
                  /\ matches[j].game_session_id = matches[i].game_session_id
                  /\ matches[j].round_number = matches[i].round_number) =>
                     matches[j].match_number # matches[i].match_number
           /\ \A k \in DOMAIN round : round[k].match_number = k

\* the last call was a get_game_results
Queried == last.op = "results"

\* C14: getResults on a game id no session carries returns GameNotFound, on a
\* session that is not completed GameNotComplete; either result carries the
\* error condition alone, no winner and no dismissed track.
C14_ResultsErrors ==
    Queried =>
        /\ ~GameExists(games, last.game_id) =>
              last.resp = [NoResp EXCEPT !.status = "error", !.error = "Game not found"]
        /\ (/\ GameExists(games, last.game_id)
            /\ get_game_session(games, last.game_id).status # "completed") =>
              last.resp = [NoResp EXCEPT !.status = "error",
                                         !.error = "Game is not completed"]
        /\ last.resp.status = "error" =>
              /\ last.resp.winner_track_id = NULL
              /\ last.resp.winner_track_name = NULL
              /\ last.resp.winner_artwork_url = NULL
              /\ last.resp.dismissed_tracks = <<>>

\* the results of a session with a decided match were asked for before it was
\* completed
C14_Witness ==
    /\ Queried
    /\ last.resp.error = "Game is not completed"
    /\ GameExists(games, last.game_id)
    /\ \E i \in DOMAIN matches : matches[i].loser_track_id # NULL

\* the last call was a get_game_results answered with the results of a session
Answered == Queried /\ last.resp.status = "completed"

\* C15: getResults on a completed session returns as many dismissed tracks as
\* the session has matches, over all its rounds.
C15_DismissedCount ==
    Answered =>
        Len(last.resp.dismissed_tracks) = Len(get_all_game_matches(matches, last.game_id))

\* the loser of a match, with the name and artwork snapshotted in that match
SnapshotOfLoser(m) ==
    IF m.loser_track_id = m.track_id_1
    THEN [track_id |-> m.track_id_1, track_name |-> m.track_name_1,
          artwork_url_600 |-> m.artwork_url_1]
    ELSE [track_id |-> m.track_id_2, track_name |-> m.track_name_2,
          artwork_url_600 |-> m.artwork_url_2]

\* C16: getResults on a completed session returns the session's winner id, name
\* and artwork and, as dismissed tracks, the loser of every match of the session
\* in round-then-match order, each with the name and artwork snapshotted in the
\* match it lost.
C16_ResultsContent ==
    Answered =>
        LET game == get_game_session(games, last.game_id)
            all_matches == get_all_game_matches(matches, last.game_id)
        IN /\ last.resp.winner_track_id = OrEmpty(game.winner_track_id)
           /\ last.resp.winner_track_name = OrEmpty(game.winner_track_name)
           /\ last.resp.winner_artwork_url = OrEmpty(game.winner_artwork_url)
           /\ last.resp.dismissed_tracks =
                 [i \in DOMAIN all_matches |-> SnapshotOfLoser(all_matches[i])]

\* C17: within a session a track id is the loser_track_id of at most one match.
C17_LosesOnce ==
    \A i, j \in DOMAIN matches :
        (/\ i # j
         /\ matches[i].game_session_id = matches[j].game_session_id
         /\ matches[i].loser_track_id # NULL) =>
            matches[i].loser_track_id # matches[j].loser_track_id

\* C18: a track recorded as the loser of a match of round N of a session is in
\* no match of a later round of that session.
C18_LoserEliminated ==
    \A i, j \in DOMAIN matches :
        (/\ matches[i].game_session_id = matches[j].game_session_id
         /\ matches[i].loser_track_id # NULL
         /\ matches[j].round_number > matches[i].round_number) =>
            matches[i].loser_track_id \notin {matches[j].track_id_1, matches[j].track_id_2}

\* the rows of round n of the first session
RoundRows(n) == get_game_matches(matches, games[1].game_id, n)

\* round n has rows and every one of them is decided
Decided(n) == Len(RoundRows(n)) > 0 /\ AllComplete(RoundRows(n))

Advanced(game_id) ==
    {r \in {matches[i].round_number : i \in DOMAIN matches} :
        /\ get_game_matches(matches, game_id, r) # <<>>
        /\ get_game_matches(matches, game_id, r + 1) # <<>>}

\* the rows of round r + 1 pair the winners of round r taken in match-number order
PairsInMatchOrder(game_id, r) ==
    LET prev == get_game_matches(matches, game_id, r)
        next == get_game_matches(matches, game_id, r + 1)
        N == Len(prev)
    IN /\ Len(next) = (N + 1) \div 2
       /\ \A m \in DOMAIN next :
             /\ next[m].track_id_1 = prev[2 * m - 1].winner_track_id
             /\ next[m].track_id_2 =
                   IF 2 * m <= N THEN prev[2 * m].winner_track_id
                   ELSE prev[1].winner_track_id

NewSlots ==
    [k \in 1..(2 * (Len(matches') - Len(matches))) |->
        IF k % 2 = 1 THEN matches'[Len(matches) + (k + 1) \div 2].track_id_1
        ELSE matches'[Len(matches) + k \div 2].track_id_2]

\* the call decides a round of more than one match with winners that are each
\* the track id of a stored Track row
DecidesRound ==
    /\ last'.op = "record"
    /\ LastUndecided(last'.game_id, last'.match_id)
    /\ \A i \in DOMAIN RoundOf(last'.game_id, last'.match_id) :
          TrackExists(WinnersWith(last'.game_id, last'.match_id,
                                  last'.winner_track_id)[i])

\* C22 (as claimed): the matches of round N+1 pair the winners of round N in the
\* order in which they were recorded: the winner recorded last, by the call that
\* decides the round, fills the slot of the N-th winner, and in a round of two
\* matches the winner recorded before it is track 1 of the new match.
C22_ArrivalOrderAsClaimed ==
    [][DecidesRound =>
          LET W == WinnersWith(last'.game_id, last'.match_id, last'.winner_track_id)
              k == matches[last'.match_id].match_number
          IN /\ Len(NewSlots) >= Len(W)
             /\ NewSlots[Len(W)] = last'.winner_track_id
             /\ Len(W) = 2 => NewSlots[1] = W[3 - k]]_vars

\* C22 (amended): the matches of round N+1 pair the winners of round N in
\* match-number order: the winner of the match numbered k fills slot k of the new
\* round, whichever match of the round was recorded last.
C22_MatchOrder ==
    [][DecidesRound =>
          LET W == WinnersWith(last'.game_id, last'.match_id, last'.winner_track_id)
          IN /\ Len(NewSlots) >= Len(W)
             /\ \A k \in DOMAIN W : NewSlots[k] = W[k]
             /\ NewSlots[matches[last'.match_id].match_number] = last'.winner_track_id]_vars

\* match 1 of a round of two matches was recorded after match 2, with another
\* winner, and its winner is track 1 of the new match
C22_Witness ==
    /\ last.op = "record"
    /\ last.resp.status = "next_round"
    /\ last.match_id \in DOMAIN matches
    /\ matches[last.match_id].match_number = 1
    /\ Len(RoundOf(last.game_id, last.match_id)) = 2
    /\ Len(last.resp.matches) = 1
    /\ matches[last.resp.matches[1]].track_id_1 = last.winner_track_id
    /\ matches[last.resp.matches[1]].track_id_2 # last.winner_track_id

\* the winner fields of a GameSession row
WinnerFields(g) == <<g.winner_track_id, g.winner_track_name, g.winner_artwork_url>>

\* C24: a session whose status is active has null winner track id, name and
\* artwork, and a step that changes the winner fields of a session leaves that
\* session completed.
C24_WinnerOnlyWhenCompleted ==
    [][\A i \in DOMAIN games' :
          /\ games'[i].status = "active" => WinnerFields(games'[i]) = <<NULL, NULL, NULL>>
          /\ (i \in DOMAIN games /\ WinnerFields(games'[i]) # WinnerFields(games[i])) =>
                games'[i].status = "completed"]_vars

\* a session with a decided match is still active, its winner fields null
C24_Witness ==
    /\ games # <<>>
    /\ games[1].status = "active"
    /\ WinnerFields(games[1]) = <<NULL, NULL, NULL>>
    /\ last.op = "record"
    /\ last.resp.status = "next_round"

\* a round of the session that consists of a single match has been decided
SingleMatchRoundDecided(game_id) ==
    \E i \in DOMAIN matches :
        /\ matches[i].game_session_id = game_id
        /\ matches[i].winner_track_id # NULL
        /\ Len(get_game_matches(matches, game_id, matches[i].round_number)) = 1

\* C25: a started session whose undecided matches go on being recorded, each
\* once and with one of its two tracks as winner, eventually is completed; and it
\* is completed exactly when one of its rounds of a single match is decided.
C25_Terminates ==
    /\ [](\A g \in DOMAIN games :
             games[g].status = "completed" <=> SingleMatchRoundDecided(games[g].game_id))
    /\ (games # <<>>) ~> (games # <<>> /\ games[1].status = "completed")

\* a session started from six tracks was completed by the record of its sixth match
C25_Witness ==
    /\ games # <<>>
    /\ games[1].status = "completed"
    /\ Len(get_all_artist_tracks(ArtistId)) = 6
    /\ Len(matches) = 6
    /\ last.op = "record"
    /\ last.match_id = 6

Exactly(result, rows) ==
    /\ Range(result) = rows
    /\ Len(result) = Cardinality(rows)

\* the round numbers that occur in the GameMatch table, and the next one
RoundNumbers == {matches[i].round_number : i \in DOMAIN matches} \cup {Len(matches) + 1}

\* C27: the per-round query returns exactly the matches of the given session and
\* round in ascending match-number order, the all-matches query exactly the
\* matches of the given session ordered by round number and then match number;
\* neither returns a match of another session.
C27_MatchQueries ==
    \A game_id \in Range(GameIds) \cup {NoGameId} :
        LET all == get_all_game_matches(matches, game_id) IN
        /\ Exactly(all, {m \in Range(matches) : m.game_session_id = game_id})
        /\ \A i, j \in DOMAIN all :
              i < j => \/ all[i].round_number < all[j].round_number
                       \/ /\ all[i].round_number = all[j].round_number
                          /\ all[i].match_number <= all[j].match_number
        /\ \A r \in RoundNumbers :
              LET round == get_game_matches(matches, game_id, r) IN
              /\ Exactly(round, {m \in Range(matches) :
                                    m.game_session_id = game_id /\ m.round_number = r})
              /\ \A i, j \in DOMAIN round :
                    i < j => round[i].match_number <= round[j].match_number

\* two sessions have matches of round 1, and the second one has reached round 2
C27_Witness ==
    /\ Len(games) = 2
    /\ Len(get_game_matches(matches, games[1].game_id, 1)) = 2
    /\ Len(get_game_matches(matches, games[2].game_id, 1)) = 2
    /\ Len(get_game_matches(matches, games[2].game_id, 2)) = 1
    /\ Len(get_all_game_matches(matches, games[2].game_id)) = 3

\* C29: get_or_create_session called with the id of a stored UserSession returns
\* that row (same row id, same session_id, created_at unchanged, updated_at set
\* to the time of the call) and adds no row; called with no id or with an id no
\* row carries it adds exactly one row and returns it; and no two UserSession
\* rows ever share a session_id.
C29_GetOrCreateSession ==
    [][/\ \A i, j \in DOMAIN user_sessions' :
             i # j => user_sessions'[i].session_id # user_sessions'[j].session_id
       /\ (last'.op = "session" /\ clock' = clock) =>
             IF SessionExists(user_sessions, last'.session_id)
             THEN LET k == SessionIndex(user_sessions, last'.session_id) IN
                  /\ Len(user_sessions') = Len(user_sessions)
                  /\ last'.resp = user_sessions'[k]
                  /\ last'.resp.id = user_sessions[k].id
                  /\ last'.resp.session_id = last'.session_id
                  /\ last'.resp.created_at = user_sessions[k].created_at
                  /\ last'.resp.updated_at = clock
                  /\ last'.resp.updated_at >= user_sessions[k].updated_at
                  /\ \A i \in DOMAIN user_sessions :
                        i # k => user_sessions'[i] = user_sessions[i]
             ELSE /\ Len(user_sessions') = Len(user_sessions) + 1
                  /\ last'.resp = user_sessions'[Len(user_sessions')]
                  /\ \A i \in DOMAIN user_sessions : user_sessions'[i] = user_sessions[i]]_vars

\* a stored session was fetched again at a later time: two rows, the one returned
\* keeps its created_at and has a later updated_at
C29_Witness ==
    /\ last.op = "session"
    /\ Len(user_sessions) = 2
    /\ last.resp = user_sessions[1]
    /\ last.resp.session_id = last.session_id
    /\ last.resp.updated_at > last.resp.created_at

\* C28: collect_all_artist_tracks skips every track whose track_id is stored:
\* from a Track table with pairwise distinct track_ids, whatever calls are made one
\* after the other, no two Track rows share a track_id, and for every album a
\* call processes new_tracks + skipped_tracks is the number of tracks the catalog
\* returned for it.
C28_SkipsStored ==
    [][/\ \A i, j \in DOMAIN tracks' : i # j => tracks'[i].track_id # tracks'[j].track_id
       /\ (last'.op = "collect_all_album" /\ last'.answer.ok) =>
             LET report == last'.resp.albums[1] IN
             /\ report.new_tracks + report.skipped_tracks = Len(last'.answer.tracks)
             /\ report.new_tracks = Len(tracks') - Len(tracks)
             /\ \A k \in DOMAIN last'.answer.tracks :
                   TrackStored(tracks', TrackIdOf(last'.answer.tracks[k]))
             /\ \A i \in DOMAIN tracks : tracks'[i] = tracks[i]
             /\ collecting'.collected_albums = Append(collecting.collected_albums, report)
       /\ last'.op = "collect_all" =>
             /\ last'.resp.albums = collecting.collected_albums
             /\ tracks' = tracks]_vars

\* an album whose answer names one new track twice was processed over a table that
\* held rows already, in a call after the first: one row added, one track skipped
C28_Witness ==
    /\ last.op = "collect_all_album"
    /\ last.answer.ok
    /\ Len(last.answer.tracks) = 2
    /\ last.answer.tracks[1] = last.answer.tracks[2]
    /\ last.resp.albums[1].new_tracks = 1
    /\ last.resp.albums[1].skipped_tracks = 1
    /\ Len(tracks) > 2
    /\ \E i \in DOMAIN artist_cache : artist_cache[i].tracks_collected

\* C30: get_or_create_artist_cache returns the artist's entry when there is one,
\* adding no second entry and leaving both collected flags as they were, and
\* otherwise adds an entry with both flags false; is_artist_cached(a) is true
\* exactly when a has an entry with tracks_collected true; and an entry whose
\* tracks_collected is true keeps it true through every operation.
C30_ArtistCache ==
    [][/\ \A i, j \in DOMAIN artist_cache' :
             i # j => artist_cache'[i].artist_id # artist_cache'[j].artist_id
       /\ \A i \in DOMAIN artist_cache :
             /\ i \in DOMAIN artist_cache'
             /\ artist_cache'[i].artist_id = artist_cache[i].artist_id
             /\ artist_cache[i].tracks_collected => artist_cache'[i].tracks_collected
       /\ (last'.op = "artist_cache" /\ clock' = clock) =>
             IF CacheExists(artist_cache, last'.artist_id)
             THEN LET k == CacheIndex(artist_cache, last'.artist_id) IN
                  /\ Len(artist_cache') = Len(artist_cache)
                  /\ last'.resp = artist_cache'[k]
                  /\ last'.resp.id = artist_cache[k].id
                  /\ last'.resp.artist_name = artist_cache[k].artist_name
                  /\ last'.resp.albums_collected = artist_cache[k].albums_collected
                  /\ last'.resp.tracks_collected = artist_cache[k].tracks_collected
                  /\ \A i \in DOMAIN artist_cache :
                        i # k => artist_cache'[i] = artist_cache[i]
             ELSE /\ artist_cache' = Append(artist_cache, last'.resp)
                  /\ last'.resp.artist_id = last'.artist_id
                  /\ ~last'.resp.albums_collected
                  /\ ~last'.resp.tracks_collected
       /\ (last'.op = "is_cached" /\ clock' = clock) =>
             /\ artist_cache' = artist_cache
             /\ last'.resp <=>
                   /\ CacheExists(artist_cache, last'.artist_id)
                   /\ artist_cache[CacheIndex(artist_cache, last'.artist_id)].tracks_collected]_vars

\* the entry of an artist whose tracks were collected was fetched again, under
\* another name and beside the entry of another artist: it comes back with its
\* name and with tracks_collected true
C30_Witness ==
    /\ last.op = "artist_cache"
    /\ Len(artist_cache) = 2
    /\ last.resp.tracks_collected
    /\ last.resp.artist_name = ArtistName(last.artist_id)
    /\ Len(tracks) > 1
    /\ \E i \in DOMAIN artist_cache : ~artist_cache[i].tracks_collected

\* is_artist_cached answered false for an artist that has an entry
C30_WitnessNotCollected ==
    /\ last.op = "is_cached"
    /\ ~last.resp
    /\ CacheExists(artist_cache, last.artist_id)

\* C23: the two track ids, names and artworks of a GameMatch are copied from
\* Track rows when the match is created (a missing artwork as the empty string),
\* and no later step, whatever it does to the Track table, changes these six
\* fields of an existing GameMatch.
C23_SnapshotKept ==
    [][/\ \A i \in DOMAIN matches :
             /\ i \in DOMAIN matches'
             /\ matches'[i].track_id_1 = matches[i].track_id_1
             /\ matches'[i].track_name_1 = matches[i].track_name_1
             /\ matches'[i].artwork_url_1 = matches[i].artwork_url_1
             /\ matches'[i].track_id_2 = matches[i].track_id_2
             /\ matches'[i].track_name_2 = matches[i].track_name_2
             /\ matches'[i].artwork_url_2 = matches[i].artwork_url_2
       /\ \A i \in DOMAIN matches' \ DOMAIN matches :
             /\ \E k \in DOMAIN tracks :
                   /\ matches'[i].track_id_1 = tracks[k].track_id
                   /\ matches'[i].track_name_1 = tracks[k].track_name
                   /\ matches'[i].artwork_url_1 = OrEmpty(tracks[k].artwork_url_600)
             /\ \E k \in DOMAIN tracks :
                   /\ matches'[i].track_id_2 = tracks[k].track_id
                   /\ matches'[i].track_name_2 = tracks[k].track_name
                   /\ matches'[i].artwork_url_2 = OrEmpty(tracks[k].artwork_url_600)]_vars

\* a track of a decided match was stored again under another name and without
\* artwork: the match keeps the name and the artwork it was created with, while a
\* match created afterwards carries the new name
C23_Witness ==
    \E i, j \in DOMAIN matches :
        /\ matches[i].winner_track_id # NULL
        /\ matches[i].track_id_2 = TrackIds[1]
        /\ matches[i].track_name_2 = TrackNames[1]
        /\ matches[j].track_id_1 = TrackIds[1]
        /\ matches[j].track_name_1 = RenamedTrack
        /\ i < j
        /\ \E k \in DOMAIN tracks :
              tracks[k].track_id = TrackIds[1] /\ tracks[k].track_name = RenamedTrack

\* C31: completed is terminal for a session's data: a record call made when a
\* session is completed adds no GameMatch to that session and leaves the session's
\* winner id, name and artwork as they are.
C31_CompletedTerminal ==
    [][\A g \in DOMAIN games :
          (games[g].status = "completed" /\ last'.op = "record") =>
              /\ WinnerFields(games'[g]) = WinnerFields(games[g])
              /\ \A i \in DOMAIN matches' :
                    matches'[i].game_session_id = games[g].game_id => i \in DOMAIN matches]_vars

\* C32: game sessions are isolated: a record call naming session G changes no
\* GameMatch of another session, and a recorded match of session H adds matches
\* to no session but H and changes no GameSession but H.
C32_SessionsIsolated ==
    [][last'.op = "record" =>
          /\ \A i \in DOMAIN matches :
                matches[i].game_session_id # last'.game_id => matches'[i] = matches[i]
          /\ last'.match_id \in DOMAIN matches =>
                LET H == matches[last'.match_id].game_session_id IN
                /\ \A i \in DOMAIN matches' \ DOMAIN matches :
                      matches'[i].game_session_id = H
                /\ \A g \in DOMAIN games :
                      games'[g] # games[g] => games[g].game_id = H]_vars

\* C33: a record call that returns an error ("Match not found" or "Game not
\* found") has changed no GameMatch and no GameSession.
C33_ErrorChangesNothing ==
    [][(last'.op = "record" /\ last'.resp.status = "error") =>
          /\ last'.resp.error \in {"Match not found", "Game not found"}
          /\ matches' = matches
          /\ games' = games]_vars

\* C34: with pairwise distinct track ids in the pool and every recorded winner
\* one of the match's two tracks, no GameMatch pairs a track against itself.
C34_NoSelfPairing ==
    \A i \in DOMAIN matches : matches[i].track_id_1 # matches[i].track_id_2

\* C35: in a completed session played with participant winners, the session's
\* winner_track_id is not the loser_track_id of any match of the session.
C35_WinnerNotDismissed ==
    \A g \in DOMAIN games :
        games[g].status = "completed" =>
            \A i \in DOMAIN matches :
                matches[i].game_session_id = games[g].game_id =>
                    matches[i].loser_track_id # games[g].winner_track_id

\* the winners recorded in round round_number of a session
RecordedWinners(game_id, round_number) ==
    {matches[j].winner_track_id :
        j \in {k \in DOMAIN matches : /\ matches[k].game_session_id = game_id
                                      /\ matches[k].round_number = round_number}}

\* C36: only survivors advance: the two track ids of a match of round N+1 are
\* recorded winners of round-N matches of the same session, and the two track ids
\* of a round-1 match are ids of Track rows of the session's artist.
C36_OnlySurvivorsAdvance ==
    \A i \in DOMAIN matches :
        LET m == matches[i] IN
        IF m.round_number = 1
        THEN \A id \in {m.track_id_1, m.track_id_2} :
                \E t \in Range(get_all_artist_tracks(
                                  get_game_session(games, m.game_session_id).artist_id)) :
                    t.track_id = id
        ELSE {m.track_id_1, m.track_id_2} \subseteq
                RecordedWinners(m.game_session_id, m.round_number - 1)

LatestRound(game_id) ==
    LET rows == get_all_game_matches(matches, game_id) IN
    get_game_matches(matches, game_id, rows[Len(rows)].round_number)

\* C37: no advancement is lost under concurrency: however the requests that
\* decide the matches of a round interleave, each committing its winner before
\* it reads the round, once all of them have returned no session is left with a
\* fully decided latest round and without completed status.
C37_NoLostAdvancement ==
    inflight = {} =>
        \A g \in DOMAIN games :
            (/\ get_all_game_matches(matches, games[g].game_id) # <<>>
             /\ AllComplete(LatestRound(games[g].game_id))) =>
                games[g].status = "completed"

\* two requests that decided the two matches of round 1 had both committed before
\* either read the round: both created a round-2 match, and all have returned
C37_Witness ==
    /\ inflight = {}
    /\ last.op = "record"
    /\ last.resp.status = "next_round"
    /\ \E i, j \in DOMAIN matches :
          /\ i < j
          /\ matches[i].round_number = 2
          /\ matches[j].round_number = 2
          /\ matches[i].match_number = matches[j].match_number
    /\ \A i \in DOMAIN matches : matches[i].round_number = 1 => matches[i].winner_track_id # NULL

\* C38: however two collect requests for one artist interleave, no two Track
\* rows carry the same track_id.
C38_TrackIdsUnique ==
    \A i, j \in DOMAIN tracks : i # j => tracks[i].track_id # tracks[j].track_id

====
